---- MODULE Spec2Model ----
(***************************************************************************)
(* Model of laithwaites_playright_stremlit.py: a Streamlit script that     *)
(* loads saved HTML pages of a wine catalogue, extracts product records    *)
(* with BeautifulSoup selectors and charts a few rankings.                 *)
(*                                                                         *)
(* A Streamlit script is re-run top to bottom on every user interaction;   *)
(* st.session_state survives between runs.  One action of the model is one *)
(* re-run: the loader section (lines 30-42) followed by the body of the    *)
(* one button that was clicked.                                            *)
(*                                                                         *)
(* Text is a sequence of one-character strings.  A saved page is the       *)
(* sequence of its top-level elements; a product container is an element   *)
(* whose kids are the elements the selectors look through.                 *)
(***************************************************************************)
EXTENDS Integers, Sequences, FiniteSets, TLC

VARIABLES disk, wine_type, html, df, clicked, buttons, message, chart, product

vars == <<disk, wine_type, html, df, clicked, buttons, message, chart, product>>

(***************************************************************************)
(* Python string operations used by the script                             *)
(***************************************************************************)
Whitespace == {" ", "\n", "\t"}

RECURSIVE LStrip(_)
LStrip(s) ==
  IF s # <<>> /\ Head(s) \in Whitespace THEN LStrip(Tail(s)) ELSE s

RECURSIVE RStrip(_)
RStrip(s) ==
  IF s # <<>> /\ s[Len(s)] \in Whitespace
    THEN RStrip(SubSeq(s, 1, Len(s) - 1)) ELSE s

\* str.strip()
Strip(s) == RStrip(LStrip(s))

\* str.split(sep): the pieces between the separators, empty pieces kept
RECURSIVE Split(_, _)
Split(s, sep) ==
  IF \A i \in 1..Len(s) : s[i] # sep
    THEN <<s>>
    ELSE LET i == CHOOSE k \in 1..Len(s) :
                    s[k] = sep /\ \A j \in 1..(k - 1) : s[j] # sep
         IN  <<SubSeq(s, 1, i - 1)>> \o Split(SubSeq(s, i + 1, Len(s)), sep)

\* str.split(): the maximal runs of non-whitespace characters
RECURSIVE Words(_)
Words(s) ==
  LET t == LStrip(s)
  IN  IF t = <<>> THEN <<>>
      ELSE IF \A i \in 1..Len(t) : t[i] \notin Whitespace THEN <<t>>
      ELSE LET i == CHOOSE k \in 1..Len(t) :
                      t[k] \in Whitespace
                      /\ \A j \in 1..(k - 1) : t[j] \notin Whitespace
           IN  <<SubSeq(t, 1, i - 1)>> \o Words(SubSeq(t, i + 1, Len(t)))

(***************************************************************************)
(* Elements                                                                *)
(***************************************************************************)
NoAttr == [has |-> FALSE, val |-> <<>>]

Attr(v) == [has |-> TRUE, val |-> v]

NoLink == [present |-> FALSE, href |-> NoAttr]

\* an <a> nested in a block, with or without its href attribute
LinkTo(h) == [present |-> TRUE, href |-> h]

\* One element below a container: its tag, its classes, its text nodes in
\* document order (those of nested elements included), its first nested <a>,
\* and the two attributes the script reads from an <img>.
Elem(tag, cls, texts, link, srcset, src) ==
  [tag |-> tag, cls |-> cls, texts |-> texts, link |-> link,
   srcset |-> srcset, src |-> src]

Block(tag, cls, texts) == Elem(tag, {cls}, texts, NoLink, NoAttr, NoAttr)

Img(srcset, src) == Elem("img", {}, <<>>, NoLink, srcset, src)

\* a top-level element of a page
Node(tag, cls, kids) == [tag |-> tag, cls |-> cls, kids |-> kids]

Card(kids) == Node("li", {"ais-Hits-item"}, kids)

\* Tag.find(tag, class_=cls): the first matching element, None when there is none
Matches(e, tag, cls) == e.tag = tag /\ (cls = "" \/ cls \in e.cls)

Found(kids, tag, cls) == \E i \in 1..Len(kids) : Matches(kids[i], tag, cls)

Find(kids, tag, cls) ==
  kids[CHOOSE i \in 1..Len(kids) :
         Matches(kids[i], tag, cls)
         /\ \A j \in 1..(i - 1) : ~Matches(kids[j], tag, cls)]

\* Tag.get_text(strip=True): every text node stripped, the empty ones dropped
RECURSIVE get_text(_)
get_text(texts) ==
  IF texts = <<>> THEN <<>> ELSE Strip(Head(texts)) \o get_text(Tail(texts))

\* soup.find_all("li", class_="ais-Hits-item")
find_all(doc) ==
  SelectSeq(doc, LAMBDA n : n.tag = "li" /\ "ais-Hits-item" \in n.cls)

(***************************************************************************)
(* Sections 3 and 4: one product                                           *)
(***************************************************************************)
NA == <<"N", "/", "A">>

Origin ==
  <<"h", "t", "t", "p", "s", ":", "/", "/", "w", "w", "w", ".",
    "l", "a", "i", "t", "h", "w", "a", "i", "t", "e", "s", ".",
    "c", "o", ".", "u", "k">>

Columns == {"Name", "Link", "Price", "Country", "GrapeVariety", "Reviews", "Image"}

BlankRecord ==
  [Name |-> <<>>, Link |-> <<>>, Price |-> <<>>, Country |-> <<>>,
   GrapeVariety |-> <<>>, Reviews |-> <<>>, Image |-> <<>>]

\* x.get_text(strip=True) if x else "N/A"
TextOr(kids, tag, cls) ==
  IF Found(kids, tag, cls) THEN get_text(Find(kids, tag, cls).texts) ELSE NA

\* link_tag = name_tag.find("a") if name_tag else None
link_tag(kids) ==
  IF Found(kids, "div", "titleDescSale")
    THEN Find(kids, "div", "titleDescSale").link ELSE NoLink

\* link_tag["href"] raises KeyError when the <a> has no href
LinkRaises(kids) == link_tag(kids).present /\ ~link_tag(kids).href.has

\* LinkOf without the site origin in front of the href
LinkOfRelative(kids) ==
  IF link_tag(kids).present THEN link_tag(kids).href.val ELSE NA

LinkOf(kids) ==
  IF link_tag(kids).present THEN Origin \o link_tag(kids).href.val ELSE NA

\* srcset[-1].split()[0] raises IndexError when the last entry has no word;
\* image_tag["src"] raises KeyError when the <img> has no src
\* LastEntry reading srcset[0] in place of srcset[-1]
FirstEntry(srcset) ==
  LET entries == Split(srcset, ",") IN Words(entries[1])

LastEntry(srcset) ==
  LET entries == Split(srcset, ",") IN Words(entries[Len(entries)])

ImageRaises(kids) ==
  /\ Found(kids, "img", "")
  /\ LET image_tag == Find(kids, "img", "")
     IN  IF image_tag.srcset.has
           THEN LastEntry(image_tag.srcset.val) = <<>>
           ELSE ~image_tag.src.has

ImageOf(kids) ==
  IF Found(kids, "img", "")
    THEN LET image_tag == Find(kids, "img", "")
         IN  IF image_tag.srcset.has
               THEN LastEntry(image_tag.srcset.val)[1]
               ELSE image_tag.src.val
    ELSE <<>>

\* the body of the loop over product_cards, lines 100-130
Raises(card) == LinkRaises(card.kids) \/ ImageRaises(card.kids)

\* RecordOf with the price looked up only under a title block that was found
RecordOfPriceUnderTitle(card) ==
  [Name         |-> TextOr(card.kids, "div", "titleDescSale"),
   Link         |-> LinkOf(card.kids),
   Price        |-> IF Found(card.kids, "div", "titleDescSale")
                      THEN TextOr(card.kids, "div", "lowestPricepossible") ELSE NA,
   Country      |-> TextOr(card.kids, "span", "country-title"),
   GrapeVariety |-> TextOr(card.kids, "span", "grapeVariety-title"),
   Reviews      |-> TextOr(card.kids, "span", "review-count"),
   Image        |-> ImageOf(card.kids)]

RecordOf(card) ==
  [Name         |-> TextOr(card.kids, "div", "titleDescSale"),
   Link         |-> LinkOf(card.kids),
   Price        |-> TextOr(card.kids, "div", "lowestPricepossible"),
   Country      |-> TextOr(card.kids, "span", "country-title"),
   GrapeVariety |-> TextOr(card.kids, "span", "grapeVariety-title"),
   Reviews      |-> TextOr(card.kids, "span", "review-count"),
   Image        |-> ImageOf(card.kids)]

\* the whole loop: the records of the containers, in their order, unless the
\* body raises for one of them
AnyRaises(doc) == \E i \in 1..Len(find_all(doc)) : Raises(find_all(doc)[i])

all_products(doc) ==
  [i \in 1..Len(find_all(doc)) |-> RecordOf(find_all(doc)[i])]

(***************************************************************************)
(* Section 1: the loader                                                   *)
(***************************************************************************)
WineTypes == {"red-wine", "white-wine", "sparkling-wine"}

DigitChars == <<"0", "1", "2", "3", "4", "5", "6", "7", "8", "9">>

RECURSIVE Decimal(_)
Decimal(k) ==
  IF k < 10 THEN <<DigitChars[k + 1]>>
  ELSE Decimal(k \div 10) \o <<DigitChars[(k % 10) + 1]>>

\* code points of the characters in which two names of one category differ
Ord(c) ==
  CASE c = "." -> 46
    [] c = "0" -> 48 [] c = "1" -> 49 [] c = "2" -> 50 [] c = "3" -> 51
    [] c = "4" -> 52 [] c = "5" -> 53 [] c = "6" -> 54 [] c = "7" -> 55
    [] c = "8" -> 56 [] c = "9" -> 57
    [] c = "h" -> 104 [] c = "l" -> 108 [] c = "m" -> 109 [] c = "t" -> 116

\* a file laithwaites_wines/<cat>_page_<page>.html; two files of one category
\* share everything up to the page number, NameTail is the rest of the name
File(cat, page, body) == [cat |-> cat, page |-> page, body |-> body]

NameTail(f) == Decimal(f.page) \o <<".", "h", "t", "m", "l">>

\* Python's str <: the first differing character decides, a proper prefix is less
StrLess(a, b) ==
  \/ Len(a) < Len(b) /\ \A i \in 1..Len(a) : a[i] = b[i]
  \/ \E i \in 1..Len(a) :
       /\ i <= Len(b)
       /\ \A j \in 1..(i - 1) : a[j] = b[j]
       /\ Ord(a[i]) < Ord(b[i])

\* glob.glob(f"laithwaites_wines/{wine_type}_page_*.html")
glob(wt) == {f \in disk : f.cat = wt}

\* sorted(..., reverse=True)
RECURSIVE sortedReverse(_)
sortedReverse(files) ==
  IF files = {} THEN <<>>
  ELSE LET first == CHOOSE f \in files :
                      \A g \in files \ {f} : StrLess(NameTail(g), NameTail(f))
       IN  <<first>> \o sortedReverse(files \ {first})

\* sorted(...)
RECURSIVE sorted(_)
sorted(files) ==
  IF files = {} THEN <<>>
  ELSE LET first == CHOOSE f \in files :
                      \A g \in files \ {f} : StrLess(NameTail(f), NameTail(g))
       IN  <<first>> \o sorted(files \ {first})

selected_files(wt) == sorted(glob(wt))

\* full_html after the for loop
RECURSIVE ReadAll(_)
ReadAll(files) ==
  IF files = <<>> THEN <<>> ELSE Head(files).body \o ReadAll(Tail(files))

full_html(wt) == ReadAll(selected_files(wt))

(***************************************************************************)
(* Section 5: price parsing and the four views                             *)
(***************************************************************************)
TopN == 7

IsDigit(c) == \E d \in 1..10 : DigitChars[d] = c

DigitValue(c) == (CHOOSE d \in 1..10 : DigitChars[d] = c) - 1

\* .str.replace(r"[^\d.]", "", regex=True)
KeepDigitsAndDots(s) == SelectSeq(s, LAMBDA c : IsDigit(c) \/ c = ".")

\* float() accepts, of the strings made of digits and dots, those with at least
\* one digit and at most one dot
IsFloat(s) ==
  /\ \E i \in 1..Len(s) : IsDigit(s[i])
  /\ Cardinality({i \in 1..Len(s) : s[i] = "."}) <= 1

RECURSIVE Numeral(_)
Numeral(ds) ==
  IF ds = <<>> THEN 0
  ELSE 10 * Numeral(SubSeq(ds, 1, Len(ds) - 1)) + DigitValue(ds[Len(ds)])

RECURSIVE Pow10(_)
Pow10(n) == IF n = 0 THEN 1 ELSE 10 * Pow10(n - 1)

\* the number a float string stands for, as the fraction num / den
ToFloat(s) ==
  LET parts == Split(s, ".")
      frac  == IF Len(parts) = 2 THEN parts[2] ELSE <<>>
  IN  [num |-> Numeral(parts[1] \o frac), den |-> Pow10(Len(frac))]

Count(n) == [num |-> n, den |-> 1]

Lt(a, b) == a.num * b.den < b.num * a.den

Positive(a) == a.num > 0

\* .astype(float) raises ValueError when one of the strings is no float
AstypeRaises(rows) ==
  \E i \in 1..Len(rows) : ~IsFloat(KeepDigitsAndDots(rows[i].Price))

price_num(rows) ==
  [i \in 1..Len(rows) |-> ToFloat(KeepDigitsAndDots(rows[i].Price))]

\* the indices of idx, those that go first (by the pairs of before) first, equal
\* ones in their given order
RECURSIVE Arrange(_, _)
Arrange(idx, before) ==
  IF idx = {} THEN <<>>
  ELSE LET first == CHOOSE i \in idx :
                      \A j \in idx \ {i} :
                        <<i, j>> \in before \/ (<<j, i>> \notin before /\ i < j)
       IN  <<first>> \o Arrange(idx \ {first}, before)

\* .head(n)
head(s, n) == SubSeq(s, 1, IF Len(s) < n THEN Len(s) ELSE n)

Bars(order, labels, values) ==
  [k \in 1..Len(order) |-> [label |-> labels[order[k]], value |-> values[order[k]]]]

Names(rows) == [i \in 1..Len(rows) |-> rows[i].Name]

\* df.sort_values('price_num', ascending=False).head(7)
top_expensive(rows, prices) ==
  LET idx    == 1..Len(rows)
      before == {p \in idx \X idx : Lt(prices[p[2]], prices[p[1]])}
  IN  Bars(head(Arrange(idx, before), TopN), Names(rows), prices)

\* df[df['price_num'] > 0].sort_values('price_num').head(7)
top_cheap(rows, prices) ==
  LET idx    == {i \in 1..Len(rows) : Positive(prices[i])}
      before == {p \in idx \X idx : Lt(prices[p[1]], prices[p[2]])}
  IN  Bars(head(Arrange(idx, before), TopN), Names(rows), prices)

\* df[column].value_counts().head(7): one entry per distinct value, the most
\* frequent first, equally frequent ones in the order of their first row
value_counts(column) ==
  LET firsts == {i \in 1..Len(column) : \A j \in 1..(i - 1) : column[j] # column[i]}
      n      == [i \in 1..Len(column) |->
                   Count(Cardinality({j \in 1..Len(column) : column[j] = column[i]}))]
      before == {p \in firsts \X firsts : Lt(n[p[2]], n[p[1]])}
  IN  Bars(head(Arrange(firsts, before), TopN), column, n)

Countries(rows) == [i \in 1..Len(rows) |-> rows[i].Country]

Grapes(rows) == [i \in 1..Len(rows) |-> rows[i].GrapeVariety]

(***************************************************************************)
(* Session state and what one run shows                                    *)
(***************************************************************************)
NoHtml == [present |-> FALSE, text |-> <<>>]

NoColumn == [present |-> FALSE, vals |-> <<>>]

NoDf == [present |-> FALSE, rows |-> <<>>, price_num |-> NoColumn]

NoChart == [shown |-> FALSE, bars |-> <<>>]

NoProduct == [shown |-> FALSE, rec |-> BlankRecord]

Quiet == [kind |-> "none", about |-> ""]

\* the buttons in the order the script creates them; a run that stops or raises
\* in the body of button b has created buttons 1..b and none after it
ButtonOrder ==
  <<"previewRaw", "prettify", "previewOne", "extract",
    "expensive", "cheapest", "countries", "grapes">>

Position(b) == CHOOSE k \in 1..Len(ButtonOrder) : ButtonOrder[k] = b

Views == {"expensive", "cheapest", "countries", "grapes"}

\* DataFrame.empty
Empty(d) == d.rows = <<>>

\* get_df without its test of DataFrame.empty
get_df_stops_on_missing == ~df.present

\* get_df() reaches st.error and st.stop
get_df_stops == ~(df.present /\ ~Empty(df))

(***************************************************************************)
(* One run of the script                                                   *)
(***************************************************************************)
\* Halted with session_state["html"] = full_html done before the test of
\* selected_files: the buffer is left empty
HaltedWithEmptyBuffer(op, wt) ==
  /\ wine_type' = wt
  /\ clicked' = op
  /\ message' = [kind |-> "NoDataFound", about |-> wt]
  /\ buttons' = 0
  /\ chart' = NoChart
  /\ product' = NoProduct
  /\ html' = [present |-> TRUE, text |-> <<>>]
  /\ UNCHANGED <<disk, df>>

\* lines 40-42: st.error and st.stop; nothing below the loader runs and the
\* session state is left as it was
Halted(op, wt) ==
  /\ wine_type' = wt
  /\ clicked' = op
  /\ message' = [kind |-> "NoDataFound", about |-> wt]
  /\ buttons' = 0
  /\ chart' = NoChart
  /\ product' = NoProduct
  /\ UNCHANGED <<disk, html, df>>

\* lines 34-39: the files are read in their sorted order into session_state["html"]
Loaded(op, wt) ==
  /\ wine_type' = wt
  /\ clicked' = op
  /\ html' = [present |-> TRUE, text |-> full_html(wt)]
  /\ UNCHANGED disk

\* the run went through to the last line
Completed ==
  /\ buttons' = Len(ButtonOrder)
  /\ message' = Quiet

\* the run ended in the body of button b, by st.stop or by an exception
StoppedAt(b, kind) ==
  /\ buttons' = Position(b)
  /\ message' = [kind |-> kind, about |-> ""]

\* a button can be clicked when the last run created it
Clickable(b) == clicked # "none" /\ Position(b) <= buttons

\* the first run of a session: the selectbox shows its first option
Start ==
  /\ clicked = "none"
  /\ IF selected_files(wine_type) = <<>>
       THEN Halted("start", wine_type)
       ELSE /\ Loaded("start", wine_type)
            /\ Completed
            /\ chart' = NoChart
            /\ product' = NoProduct
            /\ UNCHANGED df

\* the user picks another wine type: a run with no button clicked
Select(wt) ==
  /\ clicked # "none"
  /\ wt # wine_type
  /\ IF selected_files(wt) = <<>>
       THEN Halted("select", wt)
       ELSE /\ Loaded("select", wt)
            /\ Completed
            /\ chart' = NoChart
            /\ product' = NoProduct
            /\ UNCHANGED df

\* lines 46-47 and 48-51: the two raw previews read the buffer and keep nothing
PreviewRaw ==
  /\ Clickable("previewRaw")
  /\ IF selected_files(wine_type) = <<>>
       THEN Halted("previewRaw", wine_type)
       ELSE /\ Loaded("previewRaw", wine_type)
            /\ Completed
            /\ chart' = NoChart
            /\ product' = NoProduct
            /\ UNCHANGED df

Prettify ==
  /\ Clickable("prettify")
  /\ IF selected_files(wine_type) = <<>>
       THEN Halted("prettify", wine_type)
       ELSE /\ Loaded("prettify", wine_type)
            /\ Completed
            /\ chart' = NoChart
            /\ product' = NoProduct
            /\ UNCHANGED df

\* the exception the loop body raises for a container
ErrorOf(card) ==
  IF LinkRaises(card.kids) THEN "KeyError"
  ELSE IF Find(card.kids, "img", "").srcset.has THEN "IndexError"
  ELSE "KeyError"

FirstError(doc) ==
  ErrorOf(find_all(doc)[CHOOSE i \in 1..Len(find_all(doc)) :
                          /\ Raises(find_all(doc)[i])
                          /\ \A j \in 1..(i - 1) : ~Raises(find_all(doc)[j])])

\* lines 55-90
PreviewOne ==
  /\ Clickable("previewOne")
  /\ IF selected_files(wine_type) = <<>>
       THEN Halted("previewOne", wine_type)
       ELSE /\ Loaded("previewOne", wine_type)
            /\ LET cards == find_all(full_html(wine_type))
               IN  IF cards = <<>>
                     THEN /\ buttons' = Len(ButtonOrder)
                          /\ message' = [kind |-> "NoProduct", about |-> ""]
                          /\ product' = NoProduct
                   ELSE IF Raises(cards[1])
                     THEN /\ StoppedAt("previewOne", ErrorOf(cards[1]))
                          /\ product' = NoProduct
                   ELSE /\ Completed
                        /\ product' = [shown |-> TRUE, rec |-> RecordOf(cards[1])]
            /\ chart' = NoChart
            /\ UNCHANGED df

\* lines 95-134
Extract ==
  /\ Clickable("extract")
  /\ IF selected_files(wine_type) = <<>>
       THEN Halted("extract", wine_type)
       ELSE /\ Loaded("extract", wine_type)
            /\ LET doc == full_html(wine_type)
               IN  IF AnyRaises(doc)
                     THEN /\ StoppedAt("extract", FirstError(doc))
                          /\ UNCHANGED df
                     ELSE /\ Completed
                          /\ df' = [present   |-> TRUE,
                                    rows      |-> all_products(doc),
                                    price_num |-> NoColumn]
            /\ chart' = NoChart
            /\ product' = NoProduct

\* lines 149-160
Expensive ==
  /\ Clickable("expensive")
  /\ IF selected_files(wine_type) = <<>>
       THEN Halted("expensive", wine_type)
       ELSE /\ Loaded("expensive", wine_type)
            /\ IF get_df_stops
                 THEN /\ StoppedAt("expensive", "NoExtractionYet")
                      /\ chart' = NoChart
                      /\ UNCHANGED df
               ELSE IF AstypeRaises(df.rows)
                 THEN /\ StoppedAt("expensive", "ValueError")
                      /\ chart' = NoChart
                      /\ UNCHANGED df
               ELSE /\ Completed
                    /\ df' = [df EXCEPT !.price_num =
                                [present |-> TRUE, vals |-> price_num(df.rows)]]
                    /\ chart' = [shown |-> TRUE,
                                 bars  |-> top_expensive(df.rows, price_num(df.rows))]
            /\ product' = NoProduct

\* lines 162-174
Cheapest ==
  /\ Clickable("cheapest")
  /\ IF selected_files(wine_type) = <<>>
       THEN Halted("cheapest", wine_type)
       ELSE /\ Loaded("cheapest", wine_type)
            /\ IF get_df_stops
                 THEN /\ StoppedAt("cheapest", "NoExtractionYet")
                      /\ chart' = NoChart
                      /\ UNCHANGED df
               ELSE IF ~df.price_num.present /\ AstypeRaises(df.rows)
                 THEN /\ StoppedAt("cheapest", "ValueError")
                      /\ chart' = NoChart
                      /\ UNCHANGED df
               ELSE LET prices == IF df.price_num.present
                                    THEN df.price_num.vals
                                    ELSE price_num(df.rows)
                    IN  /\ Completed
                        /\ df' = [df EXCEPT !.price_num =
                                    [present |-> TRUE, vals |-> prices]]
                        /\ chart' = [shown |-> TRUE,
                                     bars  |-> top_cheap(df.rows, prices)]
            /\ product' = NoProduct

\* lines 176-186
CountriesView ==
  /\ Clickable("countries")
  /\ IF selected_files(wine_type) = <<>>
       THEN Halted("countries", wine_type)
       ELSE /\ Loaded("countries", wine_type)
            /\ IF get_df_stops
                 THEN /\ StoppedAt("countries", "NoExtractionYet")
                      /\ chart' = NoChart
                 ELSE /\ Completed
                      /\ chart' = [shown |-> TRUE,
                                   bars  |-> value_counts(Countries(df.rows))]
            /\ product' = NoProduct
            /\ UNCHANGED df

\* lines 188-198
GrapesView ==
  /\ Clickable("grapes")
  /\ IF selected_files(wine_type) = <<>>
       THEN Halted("grapes", wine_type)
       ELSE /\ Loaded("grapes", wine_type)
            /\ IF get_df_stops
                 THEN /\ StoppedAt("grapes", "NoExtractionYet")
                      /\ chart' = NoChart
                 ELSE /\ Completed
                      /\ chart' = [shown |-> TRUE,
                                   bars  |-> value_counts(Grapes(df.rows))]
            /\ product' = NoProduct
            /\ UNCHANGED df

(***************************************************************************)
(* The saved pages a session may find on disk                              *)
(***************************************************************************)
MaxPages == 11

Rioja == <<" ", "R", "i", "o", "j", "a", "\n">>

Cava == <<"C", "a", "v", "a">>

Path == <<"/", "r">>

P1250 == <<"£", "1", "2", ".", "5", "0">>

P999 == <<"£", "9", ".", "9", "9">>

P000 == <<"£", "0", ".", "0", "0">>

Spain == <<"E", "S">>

France == <<" ", "F", "R">>

Merlot == <<"M", "e", "r">>

Stars == <<"4", "2">>

UrlA == <<"a", ".", "j">>

UrlB == <<"b", ".", "j">>

\* "a.j 1x, b.j 2x"
TwoSources == UrlA \o <<" ", "1", "x", ",", " ">> \o UrlB \o <<" ", "2", "x">>

Title(texts, link) == Elem("div", {"titleDescSale"}, texts, link, NoAttr, NoAttr)

TitleChoices ==
  { <<>>,
    <<Title(<<Rioja>>, NoLink)>>,
    <<Title(<<Rioja, <<" ">>, Cava>>, LinkTo(Attr(Path)))>>,
    <<Title(<<Rioja>>, LinkTo(NoAttr))>> }

PriceChoices ==
  { <<>>,
    <<Block("div", "lowestPricepossible", <<P1250>>)>>,
    <<Block("span", "lowestPricepossible", <<P999>>)>> }

CountryChoices == { <<>>, <<Block("span", "country-title", <<Spain>>)>> }

GrapeChoices == { <<>>, <<Block("span", "grapeVariety-title", <<Merlot>>)>> }

ReviewChoices == { <<>>, <<Block("span", "review-count", <<Stars>>)>> }

ImgChoices ==
  { <<>>,
    <<Img(NoAttr, NoAttr)>>,
    <<Img(NoAttr, Attr(UrlA))>>,
    <<Img(Attr(TwoSources), Attr(UrlA))>>,
    <<Img(Attr(UrlB), NoAttr)>>,
    <<Img(Attr(<<>>), Attr(UrlA))>>,
    <<Img(Attr(UrlA \o <<" ", "1", "x", ",">>), Attr(UrlA))>>,
    <<Img(Attr(UrlA \o <<",", " ">>), NoAttr)>> }

\* elements find_all passes over
Banner == Node("div", {"ais-Hits-item"}, <<>>)

Plain == Node("li", {"other"}, <<Block("span", "country-title", <<France>>)>>)

French == Card(<<Block("span", "country-title", <<France>>)>>)

Wine(name, price, country) ==
  Card(<<Title(<<name>>, LinkTo(Attr(Path))),
         Block("div", "lowestPricepossible", <<price>>),
         Block("span", "country-title", <<country>>),
         Img(Attr(TwoSources), Attr(UrlA))>>)

\* one page with one product built from every combination of sub-elements,
\* a page without products, and a category without files
ExtractorDisks ==
  { { File("red-wine", 1, <<Banner, Card(t \o p \o c \o g \o r \o i), Plain, French>>),
      File("white-wine", 1, <<Banner, Plain>>) } :
    t \in TitleChoices, p \in PriceChoices, c \in CountryChoices,
    g \in GrapeChoices, r \in ReviewChoices, i \in ImgChoices }

\* what the pages of one category may hold in a session
Shelves ==
  { <<>>,
    << <<Wine(Rioja, P1250, Spain)>>, <<Wine(Cava, P999, France), Wine(Cava, P000, Spain)>> >>,
    << <<Banner>> >>,
    << <<Wine(Cava, P1250, France),
         Card(<<Title(<<Rioja>>, NoLink), Block("span", "country-title", <<France>>)>>)>> >>,
    << <<Wine(Rioja, P999, Spain), Card(<<Img(NoAttr, NoAttr)>>)>> >> }

FilesOf(cat, pages) == {File(cat, k, pages[k]) : k \in 1..Len(pages)}

SessionDisks ==
  { FilesOf("red-wine", r) \cup FilesOf("white-wine", w) \cup FilesOf("sparkling-wine", s) :
    r \in Shelves, w \in Shelves, s \in Shelves }

\* page k of a category is marked with k
Numbered(cat, n) ==
  {File(cat, k, <<Card(<<Block("span", "review-count", <<Decimal(k)>>)>>)>>) : k \in 1..n}

LoaderDisks ==
  { Numbered("red-wine", n) \cup Numbered("white-wine", m) :
    n \in 0..MaxPages, m \in {0, 2} }

Disks == SessionDisks \cup ExtractorDisks \cup LoaderDisks

Init ==
  /\ disk \in Disks
  /\ wine_type = "red-wine"
  /\ html = NoHtml
  /\ df = NoDf
  /\ clicked = "none"
  /\ buttons = 0
  /\ message = Quiet
  /\ chart = NoChart
  /\ product = NoProduct

Next ==
  \/ Start
  \/ \E wt \in WineTypes : Select(wt)
  \/ PreviewRaw
  \/ Prettify
  \/ PreviewOne
  \/ Extract
  \/ Expensive
  \/ Cheapest
  \/ CountriesView
  \/ GrapesView

Spec == Init /\ [][Next]_vars

(***************************************************************************)
(* Vocabulary of the properties                                            *)
(***************************************************************************)
\* the six sub-elements of a container and the selector of each
SubElements == {"title", "price", "country", "grape", "review", "image"}

Locator(e) ==
  CASE e = "title"   -> [tag |-> "div",  cls |-> "titleDescSale"]
    [] e = "price"   -> [tag |-> "div",  cls |-> "lowestPricepossible"]
    [] e = "country" -> [tag |-> "span", cls |-> "country-title"]
    [] e = "grape"   -> [tag |-> "span", cls |-> "grapeVariety-title"]
    [] e = "review"  -> [tag |-> "span", cls |-> "review-count"]
    [] e = "image"   -> [tag |-> "img",  cls |-> ""]

\* the columns a sub-element fills
FieldsOf(e) ==
  CASE e = "title"   -> {"Name", "Link"}
    [] e = "price"   -> {"Price"}
    [] e = "country" -> {"Country"}
    [] e = "grape"   -> {"GrapeVariety"}
    [] e = "review"  -> {"Reviews"}
    [] e = "image"   -> {"Image"}

Default(f) == IF f = "Image" THEN <<>> ELSE NA

Is(x, e) ==
  x.tag = Locator(e).tag /\ (Locator(e).cls = "" \/ Locator(e).cls \in x.cls)

Missing(card, e) == \A k \in 1..Len(card.kids) : ~Is(card.kids[k], e)

The(card, e) ==
  card.kids[CHOOSE k \in 1..Len(card.kids) :
              Is(card.kids[k], e) /\ \A j \in 1..(k - 1) : ~Is(card.kids[j], e)]

\* a sub-element of each kind, to put into a container that lacks it
Samples(e) ==
  CASE e = "title"   -> {Title(<<Cava>>, LinkTo(Attr(Path))), Title(<<Cava>>, NoLink)}
    [] e = "price"   -> {Block("div", "lowestPricepossible", <<P999>>)}
    [] e = "country" -> {Block("span", "country-title", <<France>>)}
    [] e = "grape"   -> {Block("span", "grapeVariety-title", <<Merlot>>)}
    [] e = "review"  -> {Block("span", "review-count", <<Stars>>)}
    [] e = "image"   -> {Img(NoAttr, Attr(UrlB)), Img(Attr(TwoSources), NoAttr)}

\* the product containers of the buffer held in the session, in document order
Containers ==
  SelectSeq(html.text, LAMBDA n : n.tag = "li" /\ "ais-Hits-item" \in n.cls)

\* the last run was a click on 'Extract All Products' / it went through
ExtractRan == clicked = "extract" /\ message.kind # "NoDataFound"

ExtractDone == clicked = "extract" /\ message = Quiet

\* the last run was a click on a view button that got as far as get_df
ViewRan == clicked \in Views /\ message.kind # "NoDataFound"

\* the files of the selected category, and their bodies in ascending page index
Pages == {f \in disk : f.cat = wine_type}

RECURSIVE ByPageIndex(_)
ByPageIndex(files) ==
  IF files = {} THEN <<>>
  ELSE LET f == CHOOSE x \in files : \A y \in files : x.page <= y.page
       IN  f.body \o ByPageIndex(files \ {f})

\* ... and in ascending order of their names, compared character by character
NameRank(f) == 1 + Cardinality({g \in Pages : StrLess(NameTail(g), NameTail(f))})

RECURSIVE BodiesOf(_)
BodiesOf(files) ==
  IF files = <<>> THEN <<>> ELSE Head(files).body \o BodiesOf(Tail(files))

ByName ==
  BodiesOf([k \in 1..Cardinality(Pages) |-> CHOOSE f \in Pages : NameRank(f) = k])

\* the text after the last comma of a srcset value
AfterLastComma(v) ==
  LET commas == {k \in 1..Len(v) : v[k] = ","}
      last   == IF commas = {} THEN 0
                ELSE CHOOSE k \in commas : \A j \in commas : j <= k
  IN  SubSeq(v, last + 1, Len(v))

\* u is the URL part of an entry: its first run of non-whitespace characters
IsUrlPart(u, entry) ==
  /\ u # <<>>
  /\ \A k \in 1..Len(u) : u[k] \notin Whitespace
  /\ LET t == LStrip(entry)
     IN  /\ Len(u) <= Len(t)
         /\ SubSeq(t, 1, Len(u)) = u
         /\ (Len(t) > Len(u) => t[Len(u) + 1] \in Whitespace)

HasDigit(s) == \E k \in 1..Len(s) : IsDigit(s[k])

(***************************************************************************)
(* Properties                                                              *)
(***************************************************************************)
\* C1: 'Extract All Products' emits exactly one record per product container,
\* in the document order of the containers, for every buffer; with zero
\* containers the result is an empty sequence and no error is raised.
C1_OneRecordPerContainer ==
  ExtractRan =>
    /\ df.present
    /\ Len(df.rows) = Len(Containers)
    /\ \A i \in 1..Len(Containers) :
         /\ Missing(Containers[i], "country") => df.rows[i].Country = NA
         /\ ~Missing(Containers[i], "country") =>
              df.rows[i].Country = get_text(The(Containers[i], "country").texts)
    /\ Containers = <<>> => message = Quiet /\ df.rows = <<>>

\* C2: field independence.  Every emitted record carries the seven columns; a
\* column whose sub-element is missing from the container holds "N/A" ("" for
\* the image); and every other column holds what it holds for the same
\* container with that sub-element present.
C2_FieldIndependence ==
  ExtractDone =>
    /\ df.present
    /\ Len(df.rows) = Len(Containers)
    /\ \A i \in 1..Len(Containers) :
         /\ DOMAIN df.rows[i] = Columns
         /\ \A e \in SubElements :
              Missing(Containers[i], e) =>
                /\ \A f \in FieldsOf(e) : df.rows[i][f] = Default(f)
                /\ \A x \in Samples(e) :
                     LET with == Card(Containers[i].kids \o <<x>>)
                     IN  ~Raises(with) =>
                           \A f \in Columns \ FieldsOf(e) :
                             RecordOf(with)[f] = df.rows[i][f]

\* C2 witness: a record was emitted for a container that lacks its price block
\* and has a title block and an image.
C2_Witness ==
  /\ ExtractDone
  /\ df.present
  /\ \E i \in 1..Len(Containers) :
       /\ i <= Len(df.rows)
       /\ Missing(Containers[i], "price")
       /\ ~Missing(Containers[i], "title")
       /\ ~Missing(Containers[i], "image")
       /\ df.rows[i].Price = NA
       /\ df.rows[i].Name # NA

\* the name and link rule of a container c and its record r, as the spec has it
TitleRuleAsClaimed(c, r) ==
  IF Missing(c, "title") \/ ~The(c, "title").link.present
    THEN r.Name = NA /\ r.Link = NA
    ELSE /\ r.Name = get_text(The(c, "title").texts)
         /\ r.Link = Origin \o The(c, "title").link.href.val

\* ... and as the code has it
TitleRule(c, r) ==
  /\ r.Name = IF Missing(c, "title") THEN NA ELSE get_text(The(c, "title").texts)
  /\ r.Link = IF Missing(c, "title") \/ ~The(c, "title").link.present
                THEN NA
                ELSE Origin \o The(c, "title").link.href.val

C4_ImageRule ==
  ExtractDone =>
    /\ Len(df.rows) = Len(Containers)
    /\ \A i \in 1..Len(Containers) :
         LET c == Containers[i]
             r == df.rows[i]
         IN  IF Missing(c, "image") THEN r.Image = <<>>
             ELSE IF The(c, "image").srcset.has
               THEN IsUrlPart(r.Image, AfterLastComma(The(c, "image").srcset.val))
               ELSE The(c, "image").src.has /\ r.Image = The(c, "image").src.val

\* C4 witness: a record was emitted for a container whose image has a srcset
\* of two entries; its image URL is that of the second.
C4_Witness ==
  /\ ExtractDone
  /\ df.present
  /\ \E i \in 1..Len(Containers) :
       /\ i <= Len(df.rows)
       /\ ~Missing(Containers[i], "image")
       /\ The(Containers[i], "image").srcset = Attr(TwoSources)
       /\ df.rows[i].Image = UrlB

\* C5: extraction never aborts: whatever the containers have or lack, a click
\* on 'Extract All Products' runs to completion and stores a record set with a
\* record for every container.
C5_ExtractionCompletes ==
  ExtractRan =>
    /\ message = Quiet
    /\ buttons = Len(ButtonOrder)
    /\ df.present
    /\ Len(df.rows) = Len(Containers)

\* C6: a requested view signals NoExtractionYet and shows no chart exactly when
\* the session holds no record set or an empty one.
C6_NoExtractionYet ==
  ViewRan =>
    /\ (message.kind = "NoExtractionYet" /\ ~chart.shown)
         <=> (~df.present \/ df.rows = <<>>)
    /\ df.present /\ df.rows # <<>> => message.kind # "NoExtractionYet"

\* C6 witness: a view was requested after an extraction that found no container.
C6_Witness ==
  /\ ViewRan
  /\ df.present
  /\ df.rows = <<>>
  /\ message.kind = "NoExtractionYet"

\* C7: a run for a category without files signals NoDataFound naming the
\* category and halts: no preview, extraction or view output, no button below
\* the loader, buffer and record set as they were; and the next run for a
\* category with files loads its pages and goes on.
C7_NoDataFoundHalts ==
  [][ /\ {f \in disk : f.cat = wine_type'} = {} <=> message'.kind = "NoDataFound"
      /\ message'.kind = "NoDataFound" =>
           /\ message'.about = wine_type'
           /\ html' = html
           /\ df' = df
           /\ ~chart'.shown
           /\ ~product'.shown
           /\ buttons' = 0
      /\ message.kind = "NoDataFound" /\ message'.kind # "NoDataFound" =>
           /\ html'.present
           /\ html'.text = ByName'
           /\ buttons' = Len(ButtonOrder)
    ]_vars

\* C7 witness: NoDataFound was signalled in a session that holds a buffer and a
\* non-empty record set.
C7_Witness ==
  /\ message.kind = "NoDataFound"
  /\ html.present
  /\ html.text # <<>>
  /\ df.present
  /\ df.rows # <<>>

\* C8: a record whose price has no digit does not break the price views: both
\* complete, the most-expensive view ranks every record (up to seven), the
\* cheapest view leaves out the records without digits.
C8_UnparseablePrices ==
  clicked \in {"expensive", "cheapest"} /\ df.present /\ df.rows # <<>>
  /\ message.kind # "NoDataFound" =>
    /\ message = Quiet
    /\ chart.shown
    /\ clicked = "expensive" =>
         Len(chart.bars) = (IF Len(df.rows) < TopN THEN Len(df.rows) ELSE TopN)
    /\ clicked = "cheapest" =>
         Len(chart.bars) <= Cardinality({i \in 1..Len(df.rows) : HasDigit(df.rows[i].Price)})

\* C9 as claimed: after a load the buffer is the contents of the category's
\* files in ascending page index, for any number of pages.
C9_PageOrder ==
  clicked # "none" /\ message.kind # "NoDataFound" =>
    html.present /\ html.text = ByPageIndex(Pages)

\* C9 amended: after a load the buffer is the contents of the category's files
\* in ascending order of their names compared character by character, nothing
\* else in it; that is ascending page index while there are at most 9 pages.
C9_NameOrder ==
  clicked # "none" /\ message.kind # "NoDataFound" =>
    /\ html.present
    /\ html.text = ByName
    /\ Cardinality(Pages) <= 9 => html.text = ByPageIndex(Pages)

\* C9 witness: a category of ten or more pages was loaded, and the buffer is
\* not in page order.
C9_Witness ==
  /\ clicked # "none"
  /\ message.kind # "NoDataFound"
  /\ Cardinality(Pages) >= 10
  /\ html.text # ByPageIndex(Pages)

\* C10: whenever a view charts the record set, it is the record set extracted
\* from the buffer the session holds at that moment.
C10_RecordSetMatchesBuffer ==
  ViewRan /\ chart.shown =>
    /\ ~AnyRaises(html.text)
    /\ df.rows = all_products(html.text)

====
